---- MODULE Spec2Model ----
(***************************************************************************)
(* Model of the simulation core of Solarfilter.py: the water-quality model *)
(* (Contaminant, WaterQuality), the filtration material catalogue and the  *)
(* SolarDistillationSimulator state with start_simulation and              *)
(* simulate_step.                                                          *)
(*                                                                         *)
(* Number representation (the program computes in binary floating point):  *)
(*   - contaminant levels: thousandths of the contaminant's unit;          *)
(*   - percentages: hundredths of a percent (basis points);                *)
(*   - reduction factors, evaporation and condensation efficiency:         *)
(*     ten-thousandths;                                                    *)
(*   - clarity: thousandths;                                               *)
(*   - ground moisture, draw amounts and flow effects: binary fixed point  *)
(*     with FracBits fractional bits, rounded to nearest.  0.05 and 0.8    *)
(*     have no finite binary expansion, so, as in the program, the         *)
(*     reservoir is not drained by a whole number of draws and the last    *)
(*     draw is clamped to what is left.                                    *)
(***************************************************************************)
EXTENDS Integers, Sequences, FiniteSets, TLC

\* ---------------------------------------------------------------- bounds

\* fractional bits of the binary fixed-point reals
FracBits == 10

\* cap on the tick counter of one run
MaxTick == 3

\* ----------------------------------------------------- fixed-point helpers

GroundScale == 2 ^ FracBits

\* the real num/den as a binary fixed-point number, rounded to nearest
Fix(num, den) == (2 * num * GroundScale + den) \div (2 * den)

\* product of two binary fixed-point numbers, rounded to nearest
FMul(a, b) == (2 * a * b + GroundScale) \div (2 * GroundScale)

\* a * b / 10000 for a, b >= 0, without leaving the 32-bit range
MulDiv10k(a, b) ==
    LET aq == a \div 10000
        ar == a % 10000
        bq == b \div 10000
        br == b % 10000
    IN  a * bq + aq * br + (ar * br) \div 10000

\* level (thousandths) times a factor (ten-thousandths, either sign)
ScaleBy(level, factor) ==
    IF factor >= 0 THEN MulDiv10k(level, factor)
                   ELSE 0 - MulDiv10k(level, 0 - factor)

Min(a, b) == IF a <= b THEN a ELSE b

Clip(x, lo, hi) == IF x < lo THEN lo ELSE IF x > hi THEN hi ELSE x

\* ------------------------------------------------------------ Contaminant

Contaminant(initial_level) ==
    [initial_level |-> initial_level, current_level |-> initial_level]

\* reduce() without the near-zero cap
reduce_nocap(c, percentage) ==
    [c EXCEPT !.current_level = ScaleBy(c.current_level, 10000 - percentage)]

\* reduce() that keeps the magnitude of a negative product
reduce_abs(c, percentage) ==
    LET lvl == ScaleBy(c.current_level, 10000 - percentage)
        mag == IF lvl < 0 THEN 0 - lvl ELSE lvl
    IN  [c EXCEPT !.current_level = IF mag < 10 THEN 0 ELSE mag]

\* Contaminant.reduce: the contaminant after the call
reduce(c, percentage) ==
    LET reduction_factor == 10000 - percentage
        lvl == ScaleBy(c.current_level, reduction_factor)
    IN  [c EXCEPT !.current_level = IF lvl < 10 THEN 0 ELSE lvl]

\* ----------------------------------------------------------- WaterQuality

\* WaterQuality(): no contaminants
EmptyWater == [n \in {} |-> Contaminant(0)]

get_contaminant_level(wq, name) ==
    IF name \in DOMAIN wq THEN wq[name].current_level ELSE 0

apply_removal(wq, removal_efficiencies) ==
    [n \in DOMAIN wq |->
        IF n \in DOMAIN removal_efficiencies
        THEN reduce(wq[n], removal_efficiencies[n])
        ELSE wq[n]]

copy(wq) ==
    [n \in DOMAIN wq |->
        [initial_level |-> wq[n].initial_level,
         current_level |-> wq[n].current_level]]

\* ----------------------------------------------------- FiltrationMaterial

charcoal_filter ==
    [efficiency |-> ("Organic Chemicals" :> 8000 @@ "Chlorine" :> 9500 @@
                     "Heavy Metals" :> 2000 @@ "Suspended Solids" :> 1000 @@
                     "Bacteria" :> 500),
     effect_on_flow |-> Fix(7, 10),
     draw_moisture |-> FALSE]

gravel_filter ==
    [efficiency |-> ("Suspended Solids" :> 7000 @@ "Organic Chemicals" :> 0 @@
                     "Bacteria" :> 0),
     effect_on_flow |-> Fix(12, 10),
     draw_moisture |-> FALSE]

sand_filter ==
    [efficiency |-> ("Suspended Solids" :> 8500 @@ "Organic Chemicals" :> 500 @@
                     "Bacteria" :> 1000),
     effect_on_flow |-> Fix(8, 10),
     draw_moisture |-> TRUE]

distillation_process ==
    [efficiency |-> ("Suspended Solids" :> 9990 @@ "Organic Chemicals" :> 9500 @@
                     "Heavy Metals" :> 9950 @@ "Salts" :> 9990 @@
                     "Bacteria" :> 9990 @@ "Viruses" :> 9990 @@
                     "Protozoa" :> 9990 @@ "Chlorine" :> 9000),
     effect_on_flow |-> Fix(1, 1),
     draw_moisture |-> FALSE]

filtration_layers == <<gravel_filter, sand_filter, charcoal_filter>>

\* ------------------------------------------------------------- simulator

VARIABLES
    temperature,               \* self.temperature, degrees Celsius
    time_step,                 \* self.time_step
    sim_running,               \* self.sim_running
    raw_water_quality,         \* self.raw_water_quality
    filtered_water_quality,    \* self.filtered_water_quality
    distilled_water_quality,   \* self.distilled_water_quality
    ground_moisture_level,     \* self.ground_moisture_level
    capillary_draw_rate,       \* simulate_step's local, last running step
    evaporation_eff,           \* simulate_step's local, last running step
    condensation_eff,          \* simulate_step's local, last running step
    distillation_removal_dict, \* simulate_step's local, last running step
    current_clarity,           \* simulate_step's local, last running step
    last_call,                 \* the method called last
    returned                   \* what it returned

vars == <<temperature, time_step, sim_running, raw_water_quality,
          filtered_water_quality, distilled_water_quality,
          ground_moisture_level, capillary_draw_rate, evaporation_eff,
          condensation_eff, distillation_removal_dict, current_clarity,
          last_call, returned>>

_initialize_bad_water ==
    ("Suspended Solids" :> Contaminant(500000) @@
     "Organic Chemicals" :> Contaminant(100000) @@
     "Heavy Metals" :> Contaminant(50000) @@
     "Salts" :> Contaminant(1000000) @@
     "Bacteria" :> Contaminant(10000000) @@
     "Chlorine" :> Contaminant(1500))

InitialGroundMoisture == 100 * GroundScale

Init ==
    /\ temperature = 40
    /\ time_step = 0
    /\ sim_running = FALSE
    /\ raw_water_quality = _initialize_bad_water
    /\ filtered_water_quality = EmptyWater
    /\ distilled_water_quality = EmptyWater
    /\ ground_moisture_level = InitialGroundMoisture
    /\ capillary_draw_rate = 0
    /\ evaporation_eff = 0
    /\ condensation_eff = 0
    /\ distillation_removal_dict = EmptyWater
    /\ current_clarity = 0
    /\ last_call = "init"
    /\ returned = "None"

start_simulation ==
    /\ time_step' = 0
    /\ sim_running' = TRUE
    /\ raw_water_quality' = _initialize_bad_water
    /\ filtered_water_quality' = EmptyWater
    /\ distilled_water_quality' = EmptyWater
    /\ last_call' = "start"
    /\ returned' = "None"
    /\ UNCHANGED <<temperature, ground_moisture_level, capillary_draw_rate,
                   evaporation_eff, condensation_eff,
                   distillation_removal_dict, current_clarity>>

\* the draw of one material, not clamped to the remaining moisture
DrawAmountUnclamped(material, ground) ==
    FMul(Fix(5, 100), material.effect_on_flow)

\* the draw of one material from a reservoir holding ground
DrawAmount(material, ground) ==
    LET draw_amount == FMul(Fix(5, 100), material.effect_on_flow)
    IN  IF ground - draw_amount < 0 THEN ground ELSE draw_amount

\* re-contamination that is not limited to the initial level
ReintroduceUnlimited(raw, draw_amount) ==
    [n \in DOMAIN raw |->
        [raw[n] EXCEPT !.current_level =
            raw[n].current_level +
            ((raw[n].initial_level \div 100) * draw_amount) \div Fix(5, 100)]]

\* re-contamination of the raw water after a draw
Reintroduce(raw, draw_amount) ==
    [n \in DOMAIN raw |->
        LET re_contamination_amount ==
                ((raw[n].initial_level \div 100) * draw_amount) \div Fix(5, 100)
        IN  [raw[n] EXCEPT !.current_level =
                Min(raw[n].initial_level,
                    raw[n].current_level + re_contamination_amount)]]

\* the capillary loop over the layers from layer i on;
\* st = [ground, rate, raw]
RECURSIVE Capillary(_, _)
Capillary(i, st) ==
    IF i > Len(filtration_layers) THEN st
    ELSE LET material == filtration_layers[i]
         IN  IF material.draw_moisture /\ st.ground > 0
             THEN LET draw_amount == DrawAmount(material, st.ground)
                  IN  Capillary(i + 1,
                        [ground |-> st.ground - draw_amount,
                         rate |-> st.rate + draw_amount,
                         raw |-> Reintroduce(st.raw, draw_amount)])
             ELSE Capillary(i + 1, st)

\* the filtration loop over the layers from layer i on
RECURSIVE Filtration(_, _)
Filtration(i, wq) ==
    IF i > Len(filtration_layers) THEN wq
    ELSE Filtration(i + 1, apply_removal(wq, filtration_layers[i].efficiency))

EvaporationEff(temp) == Clip(1000 + (temp - 25) * 200, 100, 10000)

CondensationEff(temp) == Clip(6000 + (temp - 25) * 100, 100, 10000)

\* the percentage scaled by the process effectiveness only
DistillationPctScaled(dist_eff, evap, cond) ==
    (dist_eff * (evap + cond)) \div 20000

\* one entry of distillation_removal_dict:
\* dist_eff * (evaporation_eff + condensation_eff) / 2 * 100
DistillationPct(dist_eff, evap, cond) ==
    (dist_eff * (evap + cond)) \div 200

DistillationRemovalDict(evap, cond) ==
    [n \in DOMAIN distillation_process.efficiency |->
        DistillationPct(distillation_process.efficiency[n], evap, cond)]

\* clarity that forgets the "1.0 -" of both components
calculate_clarity_raw(raw, distilled) ==
    LET max_solids == get_contaminant_level(raw, "Suspended Solids")
        max_organics == get_contaminant_level(raw, "Organic Chemicals")
        current_solids == get_contaminant_level(distilled, "Suspended Solids")
        current_organics == get_contaminant_level(distilled, "Organic Chemicals")
        solids_clarity ==
            IF max_solids > 0 THEN (current_solids * 1000) \div max_solids ELSE 0
        organics_clarity ==
            IF max_organics > 0 THEN (current_organics * 1000) \div max_organics ELSE 0
    IN  Clip((solids_clarity * 6 + organics_clarity * 4) \div 10, 0, 1000)

calculate_clarity(raw, distilled) ==
    LET max_solids == get_contaminant_level(raw, "Suspended Solids")
        max_organics == get_contaminant_level(raw, "Organic Chemicals")
        current_solids == get_contaminant_level(distilled, "Suspended Solids")
        current_organics == get_contaminant_level(distilled, "Organic Chemicals")
        solids_clarity ==
            1000 - (IF max_solids > 0
                    THEN (current_solids * 1000) \div max_solids ELSE 0)
        organics_clarity ==
            1000 - (IF max_organics > 0
                    THEN (current_organics * 1000) \div max_organics ELSE 0)
    IN  Clip((solids_clarity * 6 + organics_clarity * 4) \div 10, 0, 1000)

\* the completion test with its comparison turned round
is_clear_flipped(raw, distilled) ==
    \A c_name \in DOMAIN raw :
        get_contaminant_level(distilled, c_name) > raw[c_name].initial_level \div 100

\* every initial level is a whole number of tenths, so
\* initial_level * 0.01 is initial_level \div 100 exactly
is_clear(raw, distilled) ==
    \A c_name \in DOMAIN raw :
        get_contaminant_level(distilled, c_name) < raw[c_name].initial_level \div 100

\* a step that counts the tick before it looks at sim_running
StepNotRunningCounting ==
    /\ ~sim_running
    /\ time_step' = time_step + 1
    /\ last_call' = "step"
    /\ returned' = "False"
    /\ UNCHANGED <<temperature, sim_running, raw_water_quality,
                   filtered_water_quality, distilled_water_quality,
                   ground_moisture_level, capillary_draw_rate,
                   evaporation_eff, condensation_eff,
                   distillation_removal_dict, current_clarity>>

\* simulate_step while not running
StepNotRunning ==
    /\ ~sim_running
    /\ last_call' = "step"
    /\ returned' = "False"
    /\ UNCHANGED <<temperature, time_step, sim_running, raw_water_quality,
                   filtered_water_quality, distilled_water_quality,
                   ground_moisture_level, capillary_draw_rate,
                   evaporation_eff, condensation_eff,
                   distillation_removal_dict, current_clarity>>

\* simulate_step while running
StepRunning ==
    /\ sim_running
    /\ time_step < MaxTick
    /\ \E cap \in {Capillary(1, [ground |-> ground_moisture_level,
                                 rate |-> 0,
                                 raw |-> raw_water_quality])} :
       \E filtered \in {Filtration(1, copy(cap.raw))} :
       \E evap \in {EvaporationEff(temperature)} :
       \E cond \in {CondensationEff(temperature)} :
       \E dict \in {DistillationRemovalDict(evap, cond)} :
       \E distilled \in {apply_removal(copy(filtered), dict)} :
       \E clarity \in {calculate_clarity(cap.raw, distilled)} :
       \E done \in {is_clear(cap.raw, distilled) /\ clarity >= 950} :
           /\ time_step' = time_step + 1
           /\ ground_moisture_level' = cap.ground
           /\ capillary_draw_rate' = cap.rate
           /\ raw_water_quality' = cap.raw
           /\ filtered_water_quality' = filtered
           /\ evaporation_eff' = evap
           /\ condensation_eff' = cond
           /\ distillation_removal_dict' = dict
           /\ distilled_water_quality' = distilled
           /\ current_clarity' = clarity
           /\ sim_running' = ~done
           /\ returned' = IF done THEN "False" ELSE "True"
    /\ last_call' = "step"
    /\ UNCHANGED temperature

simulate_step == StepNotRunning \/ StepRunning

Next == start_simulation \/ simulate_step

Spec == Init /\ [][Next]_vars

\* the timer keeps calling simulate_step
LiveSpec == Init /\ [][Next]_vars /\ WF_vars(StepRunning)

\* ------------------------------------------------------------ properties

\* the draw of the sand layer when the reservoir holds enough
SandDraw == FMul(Fix(5, 100), Fix(8, 10))

LevelsOf(wq) == [n \in DOMAIN wq |-> wq[n].current_level]

\* C1: once started, stepping eventually returns continue=false (the running
\* flag becomes false) and the clarity computed in that step is >= 0.95.
C1_EventuallyConverges ==
    sim_running ~> (/\ ~sim_running
                    /\ last_call = "step"
                    /\ returned = "False"
                    /\ current_clarity >= 950)

C1_Witness ==
    /\ temperature = 40
    /\ last_call = "step"
    /\ time_step >= 1
    /\ ~sim_running
    /\ returned = "False"
    /\ current_clarity >= 950

\* C2: right after start() every state variable is at its initial constant:
\* tick 0, ground moisture 100, raw water at its initial levels, filtered and
\* distilled water empty, running flag true.
C2_StartResetsEverything ==
    last_call = "start" =>
        /\ time_step = 0
        /\ ground_moisture_level = InitialGroundMoisture
        /\ raw_water_quality = _initialize_bad_water
        /\ filtered_water_quality = EmptyWater
        /\ distilled_water_quality = EmptyWater
        /\ sim_running

\* C3: a step() taken while the running flag is false returns continue=false
\* and changes neither the tick counter, the ground moisture, the raw,
\* filtered and distilled water nor the running flag.
C3_StoppedStepIsNoOp ==
    [][(~sim_running /\ last_call' = "step") =>
            /\ returned' = "False"
            /\ UNCHANGED <<time_step, ground_moisture_level,
                           raw_water_quality, filtered_water_quality,
                           distilled_water_quality, sim_running>>]_vars

C3_Witness ==
    /\ last_call = "step"
    /\ ~sim_running
    /\ returned = "False"
    /\ time_step = 0
    /\ ground_moisture_level = InitialGroundMoisture
    /\ distilled_water_quality = EmptyWater

\* C4: from one state to the next the ground moisture never increases and is
\* never negative, and a draw that would take it below 0 leaves exactly 0.
C4_GroundMoistureMonotone ==
    [][/\ ground_moisture_level' <= ground_moisture_level
       /\ ground_moisture_level' >= 0
       /\ (/\ sim_running
           /\ last_call' = "step"
           /\ ground_moisture_level > 0
           /\ ground_moisture_level - SandDraw < 0)
          => ground_moisture_level' = 0]_vars

C4_Witness ==
    /\ last_call = "step"
    /\ ground_moisture_level = 0
    /\ capillary_draw_rate > 0
    /\ capillary_draw_rate < SandDraw

\* C5: every contaminant of the raw, filtered and distilled water has a
\* current level between 0 and its initial level, also after the distillation
\* pass has applied its computed percentages.
C5_LevelsWithinBounds ==
    \A wq \in {raw_water_quality, filtered_water_quality,
               distilled_water_quality} :
        \A n \in DOMAIN wq :
            /\ wq[n].current_level >= 0
            /\ wq[n].current_level <= wq[n].initial_level

C5_Witness ==
    /\ last_call = "step"
    /\ DOMAIN distilled_water_quality = DOMAIN raw_water_quality
    /\ \E n \in DOMAIN distilled_water_quality :
          /\ filtered_water_quality[n].current_level > 0
          /\ distillation_removal_dict[n] > 10000
          /\ distilled_water_quality[n].current_level = 0

\* C6: a step() taken while running clears the running flag and returns
\* continue=false exactly when, after its passes, every raw-water contaminant's
\* distilled level is below 1% of its initial level and clarity >= 0.95;
\* otherwise it returns continue=true and the flag stays true.
C6_ConvergenceCriterion ==
    [][(sim_running /\ last_call' = "step") =>
          IF /\ \A c \in DOMAIN raw_water_quality' :
                   (IF c \in DOMAIN distilled_water_quality'
                    THEN distilled_water_quality'[c].current_level ELSE 0) * 100
                   < raw_water_quality'[c].initial_level
             /\ current_clarity' >= 950
          THEN ~sim_running' /\ returned' = "False"
          ELSE sim_running' /\ returned' = "True"]_vars

C6_Witness ==
    /\ last_call = "step"
    /\ time_step = 1
    /\ ~sim_running
    /\ returned = "False"
    /\ current_clarity >= 950
    /\ \A c \in DOMAIN raw_water_quality :
          c \in DOMAIN distilled_water_quality
          /\ distilled_water_quality[c].current_level * 100
             < raw_water_quality[c].initial_level

\* C7: after a running step() no distilled level is greater than the filtered
\* level of the same contaminant, and after start() and one step() at
\* temperature 40 the distilled Suspended Solids level is strictly less than
\* the filtered one.
C7_DistillationNeverIncreases ==
    (DOMAIN distilled_water_quality # {}) =>
        /\ \A n \in DOMAIN distilled_water_quality :
              distilled_water_quality[n].current_level
                  <= filtered_water_quality[n].current_level
        /\ (time_step = 1 /\ temperature = 40) =>
              distilled_water_quality["Suspended Solids"].current_level
                  < filtered_water_quality["Suspended Solids"].current_level

C7_Witness ==
    /\ last_call = "step"
    /\ time_step = 1
    /\ temperature = 40
    /\ filtered_water_quality["Suspended Solids"].current_level = 20250
    /\ distilled_water_quality["Suspended Solids"].current_level < 20250

\* C8: the percentage handed to reduce() for each contaminant of the
\* distillation table is reference_efficiency * (evaporation_eff +
\* condensation_eff) / 2, with evaporation_eff 0.40 and condensation_eff 0.75
\* at temperature 40.  (In the model's units the equation is
\* dict[n] * 20000 = efficiency[n] * (evap + cond); both sides are divided by
\* 100, which every product here is a multiple of, to stay within 32 bits.)
C8_RemovalPercentage ==
    (DOMAIN distillation_removal_dict # {}) =>
        /\ evaporation_eff = 4000
        /\ condensation_eff = 7500
        /\ \A n \in DOMAIN distillation_removal_dict :
              distillation_removal_dict[n] * 200 =
                  (distillation_process.efficiency[n]
                     * (evaporation_eff + condensation_eff)) \div 100

====
